---------------------------- MODULE Spec2Model ----------------------------
(***************************************************************************)
(* A model of the ivxj package: panel segmentation (split_mat_into_cells), *)
(* lag-window deletion (delete_period_obs), the within transformation,     *)
(* the self-generated instrument (gen_ivx), the X-jackknife estimator of   *)
(* rho (xj) and the orchestrator raw_ivxj with its DataFrame front end     *)
(* ivxj.                                                                   *)
(*                                                                         *)
(* float64 values are modelled as exact fractions <<n, d>> with d >= 0:    *)
(* d > 0 is the finite number n/d in lowest terms, <<0,0>> is NaN and      *)
(* <<1,0>>, <<-1,0>> are +inf and -inf.  Rounding and the sign of zero are *)
(* not modelled.  Arrays are sequences; Python's 0-based indices are       *)
(* shifted by one where a sequence is indexed.                             *)
(***************************************************************************)
EXTENDS Integers, Sequences, FiniteSets, TLC

VARIABLES
    pc,         \* position of the call under study
    A,          \* stacked series handed to a segment-level function
    Tlens,      \* length vector handed to a segment-level function
    h,          \* number of observations to delete
    fromStart,  \* delete from the start (TRUE) or from the end (FALSE)
    rhoz,       \* IVX parameter
    res,        \* what the call returned or raised
    heap,       \* numpy arrays by identity (raw_ivxj: caller's and local)
    loc,        \* local names of raw_ivxj / ivxj
    cols        \* ivxj: the column names of data

vars == <<pc, A, Tlens, h, fromStart, rhoz, res, heap, loc, cols>>

-----------------------------------------------------------------------------
(* Bounds of the model                                                     *)

MaxUnits == 2
MaxT == 3
MaxH == 2
MaxVal == 1

-----------------------------------------------------------------------------
(* Integer helpers                                                         *)

Min(a, b) == IF a < b THEN a ELSE b

Max(a, b) == IF a > b THEN a ELSE b

Abs(a) == IF a < 0 THEN -a ELSE a

Sign(a) == IF a < 0 THEN -1 ELSE IF a > 0 THEN 1 ELSE 0

RECURSIVE Gcd(_, _)
Gcd(a, b) == IF b = 0 THEN a ELSE Gcd(b, a % b)

RECURSIVE IPow(_, _)
IPow(b, e) == IF e = 0 THEN 1 ELSE b * IPow(b, e - 1)

-----------------------------------------------------------------------------
(* float64 as exact fractions                                              *)

NaN == <<0, 0>>

Zero == <<0, 1>>

Norm(n, d) ==
    IF d = 0 THEN <<Sign(n), 0>>
    ELSE LET g == Gcd(Abs(n), Abs(d))
         IN  <<(Sign(d) * n) \div g, Abs(d) \div g>>

F64(v) == <<v, 1>>

IsFinite(a) == a[2] # 0

IsNaN(a) == a = NaN

FNeg(a) == <<-a[1], a[2]>>

FAdd(a, b) ==
    IF a[2] = 0 /\ b[2] = 0
    THEN (IF a[1] = b[1] THEN a ELSE NaN)
    ELSE LET l == IF a[2] = 0 \/ b[2] = 0 THEN 0
                  ELSE (a[2] \div Gcd(a[2], b[2])) * b[2]
         IN  IF l = 0 THEN Norm(a[1] * b[2] + b[1] * a[2], 0)
             ELSE Norm(a[1] * (l \div a[2]) + b[1] * (l \div b[2]), l)

FSub(a, b) == FAdd(a, FNeg(b))

FMul(a, b) == Norm(a[1] * b[1], a[2] * b[2])

FDiv(a, b) == Norm(a[1] * b[2] * (IF b[1] < 0 THEN -1 ELSE 1), a[2] * Abs(b[1]))

\* base ** e for a float64 base and an integer e >= 0 (0 ** 0 = 1)
FPow(b, e) == IF e = 0 THEN F64(1) ELSE Norm(IPow(b[1], e), IPow(b[2], e))

F64Array(s) == [i \in DOMAIN s |-> F64(s[i])]

RECURSIVE FSum(_)
FSum(s) == IF s = <<>> THEN Zero ELSE FAdd(FSum(SubSeq(s, 1, Len(s) - 1)), s[Len(s)])

\* np.dot of two 1-D arrays of equal length
FDot(s, t) == FSum([i \in DOMAIN s |-> FMul(s[i], t[i])])

\* np.mean: the sum over the count, NaN for an empty array
FMean(s) == FDiv(FSum(s), F64(Len(s)))

-----------------------------------------------------------------------------
(* Python sequences                                                        *)

RECURSIVE ISum(_)
ISum(s) == IF s = <<>> THEN 0 ELSE ISum(SubSeq(s, 1, Len(s) - 1)) + s[Len(s)]

\* np.cumsum
CumSum(s) == [i \in DOMAIN s |-> ISum(SubSeq(s, 1, i))]

RECURSIVE Concat(_)
Concat(ss) == IF ss = <<>> THEN <<>> ELSE Concat(SubSeq(ss, 1, Len(ss) - 1)) \o ss[Len(ss)]

\* a slice bound i of a sequence of length n: negative counts from the end,
\* and the result is clipped to 0..n
ClampIdx(i, n) == IF i < 0 THEN Max(n + i, 0) ELSE Min(i, n)

\* s[a:b]
Slice(s, a, b) == SubSeq(s, ClampIdx(a, Len(s)) + 1, ClampIdx(b, Len(s)))

\* s[a:]
SliceFrom(s, a) == SubSeq(s, ClampIdx(a, Len(s)) + 1, Len(s))

\* s[:b]
SliceTo(s, b) == SubSeq(s, 1, ClampIdx(b, Len(s)))

\* Python's None
None == "None"

\* a name not bound yet, a variable a call does not use
Idle == <<>>

\* a call's outcome: a returned value or a raised exception
Ok(v) == [st |-> "ok", val |-> v]

Raise(e) == [st |-> e, val |-> <<>>]

-----------------------------------------------------------------------------
(* split_mat_into_cells                                                    *)

EndIndices(T) == CumSum(T)

\* the boundaries without the leading 0
StartIndicesNoZero(T) == SliceTo(EndIndices(T), -1)

StartIndices(T) == <<0>> \o SliceTo(EndIndices(T), -1)

\* [A[start:end] for start, end in zip(start_indices, end_indices)]
SplitCells(a, T) ==
    [i \in 1..Min(Len(StartIndices(T)), Len(EndIndices(T))) |->
        Slice(a, StartIndices(T)[i], EndIndices(T)[i])]

split_mat_into_cells(a, T) == SplitCells(F64Array(a), T)

-----------------------------------------------------------------------------
(* delete_period_obs                                                       *)

\* np.concatenate of a list of arrays; an empty list raises ValueError
NpConcatenate(ss) == IF ss = <<>> THEN Raise("ValueError") ELSE Ok(Concat(ss))

\* the window taken from the wrong end
DropFirstFromEnd(x, k) == SliceTo(x, -k)

\* x[h:]
DropFirst(x, k) == SliceFrom(x, k)

\* x[:-h]
DropLast(x, k) == SliceTo(x, -k)

\* lines 33-43, on an array that is float64 already
DeletePeriodObs(a, T, k, fs) ==
    LET subMatList == SplitCells(a, T)
    IN  IF fs
        THEN NpConcatenate([i \in DOMAIN subMatList |-> DropFirst(subMatList[i], k)])
        ELSE NpConcatenate([i \in DOMAIN subMatList |-> DropLast(subMatList[i], k)])

delete_period_obs(a, T, k, fs) == DeletePeriodObs(F64Array(a), T, k, fs)

-----------------------------------------------------------------------------
(* within_trans                                                            *)

\* x - m elementwise
FShift(x, m) == [i \in DOMAIN x |-> FSub(x[i], m)]

\* lines 31-36, on an array that is float64 already
WithinTrans(a, T) ==
    LET subMatList == SplitCells(a, T)
    IN  NpConcatenate([i \in DOMAIN subMatList |->
                          FShift(subMatList[i], FMean(subMatList[i]))])

within_trans(a, T) == WithinTrans(F64Array(a), T)

-----------------------------------------------------------------------------
(* gen_ivx                                                                 *)

\* np.cumsum of a float64 array
FCumSum(s) == [i \in DOMAIN s |-> FSum(SubSeq(s, 1, i))]

\* np.diff: out[t] = x[t+1] - x[t]
NpDiff(x) == [i \in 1..(Len(x) - 1) |-> FSub(x[i + 1], x[i])]

\* a first difference of 0 in place of x[0]
NpInsertZero(dx, v) == <<Zero>> \o dx

\* np.insert(dx, 0, v)
NpInsert0(dx, v) == <<v>> \o dx

\* rhoz ** np.arange(T - 1, -1, -1)
Powers(rz, T) == [i \in 1..T |-> FPow(rz, T - i)]

\* gen_ivx_for_one_time_series, for a unit with at least one observation
\* (x[0] of an empty unit raises IndexError, see gen_ivx)
gen_ivx_for_one_time_series(x, rz) ==
    LET T == Len(x)
        dx == NpInsert0(NpDiff(x), x[1])
        powers == Powers(rz, T)
        acc == FCumSum([i \in 1..T |-> FMul(powers[i], dx[i])])
    IN  [i \in 1..T |-> FDiv(acc[i], powers[i])]

\* lines 29-34, on an array that is float64 already
GenIvx(x, rz, T) ==
    LET subMatList == SplitCells(x, T)
    IN  IF \E i \in DOMAIN subMatList : subMatList[i] = <<>>
        THEN Raise("IndexError")
        ELSE NpConcatenate([i \in DOMAIN subMatList |->
                                gen_ivx_for_one_time_series(subMatList[i], rz)])

gen_ivx(x, rz, T) == GenIvx(F64Array(x), rz, T)

-----------------------------------------------------------------------------
(* xj                                                                      *)

\* a unit takes part in the estimate of rho only if it is longer than this
MinT == 20

\* the 0-based indices a, a+step, ... below b
RECURSIVE StepIdx(_, _, _)
StepIdx(a, b, step) == IF a >= b THEN <<>> ELSE <<a>> \o StepIdx(a + step, b, step)

\* s[a:b:step] for step > 0
SliceStep(s, a, b, step) ==
    LET idx == StepIdx(ClampIdx(a, Len(s)), ClampIdx(b, Len(s)), step)
    IN  [i \in DOMAIN idx |-> s[idx[i] + 1]]

\* the largest odd number strictly below an odd T
OddLenMinusTwo(T) == IF T % 2 # 0 THEN T - 2 ELSE T - 1

\* Max odd number less than or equal to T
OddLen(T) == IF T % 2 # 0 THEN T ELSE T - 1

\* lines 94-103: the three interleaved subsequences of the series handed in
OddParts(x) ==
    LET T == Len(x)
    IN  [x_odd |-> SliceStep(x, 0, T - 2, 2),
         x_odd_fwd |-> SliceStep(x, 2, T, 2),
         x_even |-> SliceStep(x, 1, T - 1, 2)]

xjackk_for_odd_time_len(x, xx_for_correction, x0_for_correction) ==
    LET T == Len(x)
        x_odd == OddParts(x).x_odd
        x_odd_fwd == OddParts(x).x_odd_fwd
        x_even == OddParts(x).x_even
        x_odd_tilde == FShift(x_odd, FMean(x_odd))
        x_even_tilde == FShift(x_even, FMean(x_even))
        c == FDiv(F64(4), F64(T - 1))
    IN  [numer |-> FSub(FAdd(FAdd(FDot(x_odd_tilde, x_even),
                                  FDot(x_even_tilde, x_odd_fwd)),
                             FMul(c, xx_for_correction)),
                        FMul(c, x0_for_correction)),
         denom |-> FAdd(FDot(x_odd_tilde, x_odd_tilde),
                        FDot(x_even_tilde, x_even_tilde))]

\* the whole unit, whatever its length
XjWorkingWhole(x, T) == x

\* lines 53-61: the series handed to xjackk_for_odd_time_len, the unit
\* itself if T is odd and the unit without its first observation if not
XjWorking(x, T) == IF T % 2 # 0 THEN x ELSE SliceFrom(x, 1)

\* the loop body of xj for one eligible unit x of length T
XjUnit(x, T) ==
    LET To == OddLen(T)
        x_first_half == SliceTo(x, (To - 1) \div 2)
        x_first_half_fwd == Slice(x, 1, (To + 1) \div 2)
        xx_for_correction == FDot(x_first_half, x_first_half_fwd)
        x0_for_correction ==
            FMul(<<1, 2>>,
                 FAdd(FMul(x[1], FSum(SliceStep(x, 1, -1, 2))),
                      FMul(x[2], FSum(SliceStep(x, 0, -2, 2)))))
    IN  xjackk_for_odd_time_len(XjWorking(x, T), xx_for_correction,
                                x0_for_correction)

\* the units the loop does not skip
Eligible(T) == {i \in DOMAIN T : ~(T[i] <= MinT)}

RECURSIVE XjAccumulate(_, _, _)
XjAccumulate(xlong, T, i) ==
    IF i = 0 THEN <<>>
    ELSE IF i \in Eligible(T)
         THEN Append(XjAccumulate(xlong, T, i - 1),
                     XjUnit(Slice(xlong, StartIndices(T)[i], EndIndices(T)[i]), T[i]))
         ELSE XjAccumulate(xlong, T, i - 1)

\* the names the loop of xj binds for unit i: T, To, the series x handed to
\* xjackk_for_odd_time_len and the subsequences built from it there
XjUnitLocals(xlong, T, i) ==
    LET x == XjWorking(Slice(xlong, StartIndices(T)[i], EndIndices(T)[i]), T[i])
    IN  [i |-> i, T |-> T[i], To |-> OddLen(T[i]), x |-> x,
         x_odd |-> OddParts(x).x_odd,
         x_odd_fwd |-> OddParts(x).x_odd_fwd,
         x_even |-> OddParts(x).x_even]

\* those names for every unit the loop does not skip, in unit order
RECURSIVE XjLocals(_, _, _)
XjLocals(xlong, T, i) ==
    IF i = 0 THEN <<>>
    ELSE IF i \in Eligible(T)
         THEN Append(XjLocals(xlong, T, i - 1), XjUnitLocals(xlong, T, i))
         ELSE XjLocals(xlong, T, i - 1)

\* xj on a float64 array: np.sum(numers) / np.sum(denoms)
XjFloat(xlong, T) ==
    LET acc == XjAccumulate(xlong, T, Len(T))
    IN  Ok(FDiv(FSum([k \in DOMAIN acc |-> acc[k].numer]),
                FSum([k \in DOMAIN acc |-> acc[k].denom])))

xj(xlong, T) == XjFloat(F64Array(xlong), T)

-----------------------------------------------------------------------------
(* xjackk_unbalanced, the earlier form of xj kept in xjackkUnbalanced.py   *)

\* line 33: To = (T // 2) * 2 - 1
OddLenUnbalanced(T) == (T \div 2) * 2 - 1

\* lines 31-43 for one eligible unit x of length T; its own
\* xjackk_for_odd_time_len (lines 53-81) computes what the one of xj does
XjUnitUnbalanced(x, T) ==
    LET To == OddLenUnbalanced(T)
        x_first_half == SliceTo(x, (To - 1) \div 2)
        x_first_half_fwd == Slice(x, 1, (To + 1) \div 2)
        xx_for_correction == FDot(x_first_half, x_first_half_fwd)
        x0_for_correction ==
            FMul(<<1, 2>>,
                 FAdd(FMul(x[1], FSum(SliceStep(x, 1, Len(x), 2))),
                      FMul(x[2], FSum(SliceStep(x, 0, Len(x), 2)))))
    IN  xjackk_for_odd_time_len(IF T % 2 # 0 THEN x ELSE SliceFrom(x, 1),
                                xx_for_correction, x0_for_correction)

\* the names the loop binds for unit i, with the unit's contribution
UnbalancedUnitLocals(xlong, T, i) ==
    LET x == Slice(xlong, StartIndices(T)[i], EndIndices(T)[i])
        nd == XjUnitUnbalanced(x, T[i])
    IN  [i |-> i, T |-> T[i], To |-> OddLenUnbalanced(T[i]),
         numer |-> nd.numer, denom |-> nd.denom]

\* those names for every unit the loop does not skip (T <= 20), in unit order
RECURSIVE UnbalancedLocals(_, _, _)
UnbalancedLocals(xlong, T, i) ==
    IF i = 0 THEN <<>>
    ELSE IF T[i] <= MinT
         THEN UnbalancedLocals(xlong, T, i - 1)
         ELSE Append(UnbalancedLocals(xlong, T, i - 1),
                     UnbalancedUnitLocals(xlong, T, i))

\* numer_sum / denom_sum; with no unit added both are the int 0 and the
\* division raises ZeroDivisionError
xjackk_unbalanced(xlong, T) ==
    LET acc == UnbalancedLocals(xlong, T, Len(T))
    IN  IF acc = <<>> THEN Raise("ZeroDivisionError")
        ELSE Ok(FDiv(FSum([k \in DOMAIN acc |-> acc[k].numer]),
                     FSum([k \in DOMAIN acc |-> acc[k].denom])))

-----------------------------------------------------------------------------
(* raw_ivxj: values                                                        *)

\* a >= b on float64: False when either side is NaN
FGe(a, b) ==
    /\ ~IsNaN(a)
    /\ ~IsNaN(b)
    /\ IF a[2] = 0 /\ b[2] = 0 THEN a[1] >= b[1]
       ELSE a[1] * b[2] >= b[1] * a[2]

\* the arrays of a call of raw_ivxj: the caller's three and the local ones
Addrs == {"arg_y", "arg_x", "arg_Tlens", "y", "x", "Tlens"}

\* a conversion that hands back the caller's array
AsTypeShared(ref) == ref

\* Tlens.astype(int) returns a new array; the argument is where the caller's
\* array lives, the result where the new one does

AsType(ref) == "Tlens"

\* a length vector left as it was
DecrementKept(T) == T

\* Tlens -= 1, elementwise

Decrement(T) == [i \in DOMAIN T |-> T[i] - 1]

\* one entry of lam_seq: the value of
\*   ((rhoz - rhoz**T)/(1 - rhoz) - (rhoHat - rhoHat**T)/(1 - rhoHat)) / (rhoz - rhoHat)
\* together with the length T it was raised to
Lam(rz, rh, T) ==
    [T |-> T,
     val |-> FDiv(FSub(FDiv(FSub(rz, FPow(rz, T)), FSub(F64(1), rz)),
                       FDiv(FSub(rh, FPow(rh, T)), FSub(F64(1), rh))),
                  FSub(rz, rh))]

\* the names raw_ivxj binds, before any is bound
NoLocals ==
    [Tlens |-> None, rhoHat |-> Idle, xLag |-> Idle, obs_total |-> 0,
     zLag |-> Idle, xTilde |-> Idle, xLagTilde |-> Idle, zLagTilde |-> Idle,
     yTilde |-> Idle, ZX |-> Idle, btaHat |-> Idle, uTilde |-> Idle,
     vTilde |-> Idle, omg11Hat |-> Idle, omg12Hat |-> Idle, lam_seq |-> Idle,
     b |-> Idle]

-----------------------------------------------------------------------------
(* Inputs                                                                  *)

\* length vectors of at most MaxUnits units, each of 0..MaxT periods
LenVecs(lo) == UNION {[1..n -> lo..MaxT] : n \in 0..MaxUnits}

\* series of length n: constant, rising or falling
Series(n) == {[k \in 1..n |-> a + b * k] : a \in 0..MaxVal, b \in {-1, 0, 1}}

\* values of the IVX parameter: 0, 1/2, 1 and 2
RhozVals == {<<0, 1>>, <<1, 2>>, <<1, 1>>, <<2, 1>>}

\* unit lengths around the eligibility threshold of xj
XjLens == {1, MinT, MinT + 1, MinT + 2, MinT + 3}

XjLenVecs == UNION {[1..n -> XjLens] : n \in 0..MaxUnits}

-----------------------------------------------------------------------------
(* Segment-level calls: split_mat_into_cells and delete_period_obs         *)

InitSeg ==
    /\ pc = "start"
    /\ Tlens \in LenVecs(0)
    /\ A \in Series(ISum(Tlens))
    /\ h \in 0..MaxH
    /\ fromStart \in BOOLEAN
    /\ rhoz = Zero
    /\ res = Idle
    /\ heap = Idle
    /\ loc = Idle
    /\ cols = Idle

CallSplit ==
    /\ pc = "start"
    /\ pc' = "split"
    /\ res' = Ok(split_mat_into_cells(A, Tlens))
    /\ UNCHANGED <<A, Tlens, h, fromStart, rhoz, heap, loc, cols>>

CallDelete ==
    /\ pc = "start"
    /\ pc' = "deleted"
    /\ res' = delete_period_obs(A, Tlens, h, fromStart)
    /\ UNCHANGED <<A, Tlens, h, fromStart, rhoz, heap, loc, cols>>

NextSeg == CallSplit \/ CallDelete

SpecSeg == InitSeg /\ [][NextSeg]_vars

-----------------------------------------------------------------------------
(* Instrument generation: gen_ivx                                          *)

InitGen ==
    /\ pc = "start"
    /\ Tlens \in LenVecs(0)
    /\ A \in Series(ISum(Tlens))
    /\ h = 0
    /\ fromStart = TRUE
    /\ rhoz \in RhozVals
    /\ res = Idle
    /\ heap = Idle
    /\ loc = Idle
    /\ cols = Idle

CallGenIvx ==
    /\ pc = "start"
    /\ pc' = "generated"
    /\ res' = gen_ivx(A, rhoz, Tlens)
    /\ UNCHANGED <<A, Tlens, h, fromStart, rhoz, heap, loc, cols>>

NextGen == CallGenIvx

SpecGen == InitGen /\ [][NextGen]_vars

-----------------------------------------------------------------------------
(* Estimation of rho: xj                                                   *)

InitXj ==
    /\ pc = "start"
    /\ Tlens \in XjLenVecs
    /\ A \in Series(ISum(Tlens))
    /\ h = 0
    /\ fromStart = TRUE
    /\ rhoz = Zero
    /\ res = Idle
    /\ heap = Idle
    /\ loc = Idle
    /\ cols = Idle

CallXj ==
    /\ pc = "start"
    /\ pc' = "estimated"
    /\ res' = xj(A, Tlens)
    /\ loc' = [xj |-> XjLocals(F64Array(A), Tlens, Len(Tlens)),
               xjackk_unbalanced |-> Idle,
               rho_unbalanced |-> Idle]
    /\ UNCHANGED <<A, Tlens, h, fromStart, rhoz, heap, cols>>

\* the same panel, as a float64 array, handed to xjackk_unbalanced
CallXjackkUnbalanced ==
    /\ pc = "estimated"
    /\ pc' = "compared"
    /\ loc' = [loc EXCEPT
                 !.xjackk_unbalanced = UnbalancedLocals(F64Array(A), Tlens, Len(Tlens)),
                 !.rho_unbalanced = xjackk_unbalanced(F64Array(A), Tlens)]
    /\ UNCHANGED <<A, Tlens, h, fromStart, rhoz, res, heap, cols>>

NextXj == CallXj \/ CallXjackkUnbalanced

SpecXj == InitXj /\ [][NextXj]_vars

-----------------------------------------------------------------------------
(* The orchestrator raw_ivxj(y, x, rhoz, Tlens), statement by statement    *)

InitIvxj ==
    /\ pc = "start"
    /\ A = Idle
    /\ Tlens = Idle
    /\ h = 0
    /\ fromStart = TRUE
    /\ rhoz \in RhozVals
    /\ res = Idle
    /\ \E T \in LenVecs(1) : \E xs \in Series(ISum(T)) : \E ys \in Series(ISum(T)) :
          heap = [a \in Addrs |-> CASE a = "arg_y" -> ys
                                    [] a = "arg_x" -> xs
                                    [] a = "arg_Tlens" -> T
                                    [] OTHER -> Idle]
    /\ loc = NoLocals
    /\ cols = Idle

Frame == <<A, Tlens, h, fromStart, rhoz, cols>>

\* lines 134-137: y, x, rhoz and Tlens are converted into new arrays
Enter ==
    /\ pc = "start"
    /\ pc' = "rho"
    /\ heap' = [heap EXCEPT !["y"] = F64Array(heap["arg_y"]),
                            !["x"] = F64Array(heap["arg_x"]),
                            ![AsType("arg_Tlens")] = heap["arg_Tlens"]]
    /\ loc' = [loc EXCEPT !.Tlens = AsType("arg_Tlens")]
    /\ UNCHANGED <<res, Frame>>

\* line 140
EstimateRho ==
    /\ pc = "rho"
    /\ pc' = "lag"
    /\ loc' = [loc EXCEPT !.rhoHat = XjFloat(heap["x"], heap[loc.Tlens]).val]
    /\ UNCHANGED <<res, heap, Frame>>

\* lines 143-145; np.concatenate raises ValueError for a panel of no unit
LagTrim ==
    /\ pc = "lag"
    /\ LET T == heap[loc.Tlens]
           y1 == DeletePeriodObs(heap["y"], T, 1, TRUE)
           xLag == DeletePeriodObs(heap["x"], T, 1, FALSE)
           x1 == DeletePeriodObs(heap["x"], T, 1, TRUE)
       IN  IF y1.st # "ok"
           THEN /\ pc' = "done"
                /\ res' = Raise(y1.st)
                /\ UNCHANGED <<heap, loc>>
           ELSE /\ pc' = "update"
                /\ heap' = [heap EXCEPT !["y"] = y1.val, !["x"] = x1.val]
                /\ loc' = [loc EXCEPT !.xLag = xLag.val]
                /\ res' = res
    /\ UNCHANGED Frame

\* lines 148-149: the decrement is made in place
UpdateTlens ==
    /\ pc = "update"
    /\ pc' = "instrument"
    /\ heap' = [heap EXCEPT ![loc.Tlens] = Decrement(heap[loc.Tlens])]
    /\ loc' = [loc EXCEPT !.obs_total = ISum(Decrement(heap[loc.Tlens]))]
    /\ UNCHANGED <<res, Frame>>

\* line 152; x[0] of a unit left empty raises IndexError
Instrument ==
    /\ pc = "instrument"
    /\ LET zLag == GenIvx(loc.xLag, rhoz, heap[loc.Tlens])
       IN  IF zLag.st # "ok"
           THEN /\ pc' = "done"
                /\ res' = Raise(zLag.st)
                /\ loc' = loc
           ELSE /\ pc' = "within"
                /\ loc' = [loc EXCEPT !.zLag = zLag.val]
                /\ res' = res
    /\ UNCHANGED <<heap, Frame>>

\* lines 155-158
Within ==
    /\ pc = "within"
    /\ pc' = "moments"
    /\ LET T == heap[loc.Tlens]
       IN  loc' = [loc EXCEPT !.xTilde = WithinTrans(heap["x"], T).val,
                              !.xLagTilde = WithinTrans(loc.xLag, T).val,
                              !.zLagTilde = WithinTrans(loc.zLag, T).val,
                              !.yTilde = WithinTrans(heap["y"], T).val]
    /\ UNCHANGED <<res, heap, Frame>>

\* lines 161-164: the division by ZX is made whatever ZX is
Moments ==
    /\ pc = "moments"
    /\ pc' = "residuals"
    /\ LET ZX == FDot(loc.zLagTilde, loc.xLag)
       IN  loc' = [loc EXCEPT !.ZX = ZX,
                              !.btaHat = FDiv(FDot(loc.zLagTilde, heap["y"]), ZX)]
    /\ UNCHANGED <<res, heap, Frame>>

\* lines 167-174
Residuals ==
    /\ pc = "residuals"
    /\ pc' = "nickell"
    /\ LET uTilde == [i \in DOMAIN loc.yTilde |->
                        FSub(loc.yTilde[i], FMul(loc.btaHat, loc.xLagTilde[i]))]
           vTilde == [i \in DOMAIN loc.xTilde |->
                        FSub(loc.xTilde[i], FMul(loc.rhoHat, loc.xLagTilde[i]))]
       IN  loc' = [loc EXCEPT !.uTilde = uTilde,
                              !.vTilde = vTilde,
                              !.omg11Hat = FDiv(FDot(uTilde, uTilde), F64(loc.obs_total)),
                              !.omg12Hat = FDiv(FDot(vTilde, uTilde), F64(loc.obs_total))]
    /\ UNCHANGED <<res, heap, Frame>>

\* lines 177-180
Nickell ==
    /\ pc = "nickell"
    /\ pc' = "return"
    /\ LET T == heap[loc.Tlens]
           lam_seq == [i \in DOMAIN T |-> Lam(rhoz, loc.rhoHat, T[i])]
       IN  loc' = [loc EXCEPT
                     !.lam_seq = lam_seq,
                     !.b = FDiv(FMul(loc.omg12Hat,
                                     FSum([i \in DOMAIN T |->
                                             FDiv(lam_seq[i].val, F64(T[i]))])),
                                loc.ZX)]
    /\ UNCHANGED <<res, heap, Frame>>

\* lines 183-194; se = sqrt(seSq) / abs(ZX) is returned by its operands:
\* the square root is not a fraction, and the correction by sum_of_mean_sq
\* is kept as the flag that switches it on
Return ==
    /\ pc = "return"
    /\ pc' = "done"
    /\ res' = Ok([btaHat |-> loc.btaHat,
                  btaHatDebias |-> FAdd(loc.btaHat, loc.b),
                  se |-> [omg11Hat |-> loc.omg11Hat,
                          zz |-> FDot(loc.zLag, loc.zLag),
                          corrected |-> FGe(loc.rhoHat, F64(1)),
                          ZX |-> loc.ZX],
                  rhoHat |-> loc.rhoHat])
    /\ UNCHANGED <<heap, loc, Frame>>

NextIvxj ==
    \/ Enter
    \/ EstimateRho
    \/ LagTrim
    \/ UpdateTlens
    \/ Instrument
    \/ Within
    \/ Moments
    \/ Residuals
    \/ Nickell
    \/ Return

SpecIvxj == InitIvxj /\ [][NextIvxj]_vars

-----------------------------------------------------------------------------
(* The front end ivxj(data, rhoz, identity, time, y_name, x_name), up to   *)
(* its call of raw_ivxj; data is known by its column names                 *)

ColumnNames == <<"id", "time", "y", "x", "w">>

\* the frames handed in: the first three, four or five columns
Frames == {SubSeq(ColumnNames, 1, n) : n \in {3, 4, 5}}

\* what a caller passes for a column: nothing, a column name, a wrong name
ColumnArgs == {None, "id", "time", "y", "x", "w", "nope"}

HasColumn(c) == \E k \in DOMAIN cols : cols[k] = c

InitCols ==
    /\ pc = "start"
    /\ A = Idle
    /\ Tlens = Idle
    /\ h = 0
    /\ fromStart = TRUE
    /\ rhoz \in RhozVals
    /\ res = Idle
    /\ heap = Idle
    /\ loc \in [identity : ColumnArgs, time : ColumnArgs,
                y_name : ColumnArgs, x_name : ColumnArgs]
    /\ cols \in Frames

\* lines 76-80: the condition of the if statement
NoneSupplied(l) ==
    l.identity = None /\ l.time = None /\ l.y_name = None /\ l.x_name = None

\* lines 76-80; data.columns[3] of a narrower frame raises IndexError
Defaults ==
    /\ pc = "start"
    /\ IF NoneSupplied(loc)
       THEN IF Len(cols) < 4
            THEN /\ pc' = "done"
                 /\ res' = Raise("IndexError")
                 /\ loc' = loc
            ELSE /\ pc' = "sort"
                 /\ loc' = [identity |-> cols[1], time |-> cols[2],
                            y_name |-> cols[3], x_name |-> cols[4]]
                 /\ res' = res
       ELSE /\ pc' = "sort"
            /\ loc' = loc
            /\ res' = res
    /\ UNCHANGED <<A, Tlens, h, fromStart, rhoz, heap, cols>>

\* line 83: sort_values raises KeyError for a key that is no column
SortValues ==
    /\ pc = "sort"
    /\ IF HasColumn(loc.identity) /\ HasColumn(loc.time)
       THEN pc' = "extract" /\ res' = res
       ELSE pc' = "done" /\ res' = Raise("KeyError")
    /\ UNCHANGED <<A, Tlens, h, fromStart, rhoz, heap, loc, cols>>

\* lines 86-87: indexing raises KeyError for a name that is no column;
\* lines 91-97 then count the rows of each unit and call raw_ivxj
Extract ==
    /\ pc = "extract"
    /\ IF HasColumn(loc.y_name) /\ HasColumn(loc.x_name)
       THEN pc' = "raw_ivxj" /\ res' = res
       ELSE pc' = "done" /\ res' = Raise("KeyError")
    /\ UNCHANGED <<A, Tlens, h, fromStart, rhoz, heap, loc, cols>>

NextCols == Defaults \/ SortValues \/ Extract

SpecCols == InitCols /\ [][NextCols]_vars

-----------------------------------------------------------------------------
(* Properties of the segment-level calls                                   *)

\* first index (0-based) of unit i in a series stacked by the length vector T
Prefix(T, i) == ISum(SubSeq(T, 1, i - 1))

AllAbove(T, k) == \A i \in DOMAIN T : T[i] > k

\* C2 (as claimed): delete_period_obs(A, Tlens, 0, fromStart) returns A
\* unchanged for fromStart = True and for fromStart = False.  Stated for
\* panels of at least one unit.
C2_ZeroWindowIdentity ==
    (pc = "deleted" /\ h = 0 /\ Tlens # <<>>) => res = Ok(F64Array(A))

\* C3 (as claimed): when some unit has length <= h, delete_period_obs fails
\* with an InsufficientLength error and returns nothing.  Stated for h > 0
\* and a length vector of positive entries.
C3_InsufficientLength ==
    (/\ pc = "deleted"
     /\ h > 0
     /\ AllAbove(Tlens, 0)
     /\ \E i \in DOMAIN Tlens : Tlens[i] <= h)
        => res.st = "InsufficientLength"

\* C8: for 0 < h < min(Tlens), delete_period_obs returns, in unit order, each
\* unit without its first h elements (fromStart) or without its last h
\* elements (not fromStart); the output has length sum(Tlens) - h*len(Tlens).
\* With Tlens = [3,3], A = [1..6], h = 1 it returns [2,3,5,6] and [1,2,4,5].
C8_LagWindow ==
    (pc = "deleted" /\ Tlens # <<>> /\ h > 0 /\ AllAbove(Tlens, h)) =>
        /\ res.st = "ok"
        /\ Len(res.val) = ISum(Tlens) - h * Len(Tlens)
        /\ \A i \in DOMAIN Tlens : \A j \in 1..(Tlens[i] - h) :
              res.val[Prefix(Tlens, i) - h * (i - 1) + j]
                  = F64(A[Prefix(Tlens, i) + (IF fromStart THEN h ELSE 0) + j])
        /\ (Tlens = <<3, 3>> /\ A = <<1, 2, 3, 4, 5, 6>> /\ h = 1) =>
              res.val = IF fromStart THEN F64Array(<<2, 3, 5, 6>>)
                                     ELSE F64Array(<<1, 2, 4, 5>>)

C8_Witness ==
    /\ pc = "deleted"
    /\ Tlens = <<3, 3>>
    /\ A = <<1, 2, 3, 4, 5, 6>>
    /\ h = 1
    /\ ~fromStart
    /\ res = Ok(F64Array(<<1, 2, 4, 5>>))

\* C9: split_mat_into_cells returns len(Tlens) subsequences, the i-th of
\* length Tlens[i] holding A[prefix[i] .. prefix[i]+Tlens[i]), and their
\* concatenation in order is A.
C9_SegmentationRoundTrip ==
    pc = "split" =>
        /\ res.st = "ok"
        /\ Len(res.val) = Len(Tlens)
        /\ \A i \in DOMAIN Tlens :
              /\ Len(res.val[i]) = Tlens[i]
              /\ \A j \in 1..Tlens[i] : res.val[i][j] = F64(A[Prefix(Tlens, i) + j])
        /\ Concat(res.val) = F64Array(A)

C9_Witness ==
    /\ pc = "split"
    /\ Len(Tlens) = 2
    /\ Tlens[1] = 1
    /\ Tlens[2] = 2
    /\ A = <<1, 2, 3>>
    /\ res.val = <<F64Array(<<1>>), F64Array(<<2, 3>>)>>

-----------------------------------------------------------------------------
(* Properties of gen_ivx                                                   *)

\* C10: with rhoz = 1 and every unit of length >= 1 (in a panel of at least
\* one unit), gen_ivx(x, 1, Tlens) equals x elementwise; no partial sum is
\* carried from one unit into the next.
C10_InstrumentIdentity ==
    (pc = "generated" /\ rhoz = F64(1) /\ Tlens # <<>> /\ AllAbove(Tlens, 0)) =>
        /\ res.st = "ok"
        /\ Len(res.val) = Len(A)
        /\ \A k \in DOMAIN A : res.val[k] = F64(A[k])

C10_Witness ==
    /\ pc = "generated"
    /\ rhoz = F64(1)
    /\ Tlens = <<2, 3>>
    /\ A = <<2, 3, 4, 5, 6>>
    /\ res = Ok(F64Array(A))

-----------------------------------------------------------------------------
(* Properties of xj                                                        *)

\* C4 (as claimed): when every unit has length T <= 20, xj raises an
\* InsufficientLength error instead of returning a value computed from a
\* zero denominator sum.  Stated for panels of at least one unit.
C4_RhoBoundary ==
    (pc = "estimated" /\ Tlens # <<>> /\ \A i \in DOMAIN Tlens : Tlens[i] <= 20)
        => res.st = "InsufficientLength"

\* C11: for every eligible unit (T > 20) the series handed to
\* xjackk_for_odd_time_len has odd length To, the largest odd integer <= T
\* (the whole unit when T is odd, the unit without its first observation
\* when T is even), and x_odd, x_odd_fwd and x_even built from it all have
\* length (To - 1) / 2.
C11_OddWorkingLength ==
    pc = "estimated" =>
        /\ Len(loc.xj) = Cardinality({i \in DOMAIN Tlens : Tlens[i] > 20})
        /\ \A k \in DOMAIN loc.xj :
              LET u == loc.xj[k]
                  n == Len(u.x)
                  unit == SubSeq(F64Array(A), Prefix(Tlens, u.i) + 1,
                                 Prefix(Tlens, u.i) + u.T)
              IN  /\ u.T = Tlens[u.i]
                  /\ u.T > 20
                  /\ n % 2 = 1
                  /\ n <= u.T
                  /\ n + 2 > u.T
                  /\ n = u.To
                  /\ u.x = IF u.T % 2 = 1 THEN unit ELSE Tail(unit)
                  /\ Len(u.x_odd) = (u.To - 1) \div 2
                  /\ Len(u.x_odd_fwd) = (u.To - 1) \div 2
                  /\ Len(u.x_even) = (u.To - 1) \div 2

C11_Witness ==
    /\ pc = "estimated"
    /\ Tlens = <<22, 21>>
    /\ Len(loc.xj) = 2
    /\ Len(loc.xj[1].x) = 21
    /\ Len(loc.xj[2].x) = 21
    /\ Len(loc.xj[1].x_even) = 10
    /\ loc.xj[1].x[1] # loc.xj[1].x[2]

\* C12: xj's To (T if T is odd, else T - 1) and xjackk_unbalanced's To
\* ((T // 2) * 2 - 1) are the same for every even T > 20 and differ for
\* every odd T > 20, where the first is T and the second T - 2.
C12_OddLengthFormulas ==
    pc = "compared" =>
        /\ Len(loc.xj) = Len(loc.xjackk_unbalanced)
        /\ \A k \in DOMAIN loc.xj :
              LET a == loc.xj[k]
                  b == loc.xjackk_unbalanced[k]
              IN  /\ a.i = b.i
                  /\ a.T = Tlens[a.i]
                  /\ b.T = a.T
                  /\ a.T > 20
                  /\ (a.T % 2 = 0) => a.To = b.To
                  /\ (a.T % 2 = 1) => (a.To # b.To /\ a.To = a.T /\ b.To = a.T - 2)

C12_Witness ==
    /\ pc = "compared"
    /\ Tlens = <<21, 22>>
    /\ loc.xj[1].To = 21
    /\ loc.xjackk_unbalanced[1].To = 19
    /\ loc.xj[2].To = 21
    /\ loc.xjackk_unbalanced[2].To = 21
    /\ loc.rho_unbalanced.st = "ok"

-----------------------------------------------------------------------------
(* Properties of raw_ivxj                                                  *)

\* the caller's length vector
ArgTlens == heap["arg_Tlens"]

\* x is constant within every unit of the caller's panel
ConstantWithinUnits ==
    \A i \in DOMAIN ArgTlens : \A j \in 1..ArgTlens[i] :
        heap["arg_x"][Prefix(ArgTlens, i) + j] = heap["arg_x"][Prefix(ArgTlens, i) + 1]

\* C1 (as claimed): lam[i] is computed with the length Tlens[i] the caller
\* passed in, not with the decremented length.
C1_LamUsesOriginalTlens ==
    pc \in {"return", "done"} /\ loc.lam_seq # Idle =>
        \A i \in DOMAIN ArgTlens : loc.lam_seq[i].T = ArgTlens[i]

\* C1 (amended): lam[i] is computed with the decremented length
\* Tlens[i] - 1 that is in force after the lag-trimming step, for every
\* unit i, at the values of rhoz and rhoHat of the call.
C1_LamUsesDecrementedTlens ==
    pc \in {"return", "done"} /\ loc.lam_seq # Idle =>
        /\ Len(loc.lam_seq) = Len(ArgTlens)
        /\ \A i \in DOMAIN ArgTlens :
              loc.lam_seq[i] = Lam(rhoz, loc.rhoHat, ArgTlens[i] - 1)

C1_Witness ==
    /\ pc = "done"
    /\ res.st = "ok"
    /\ ArgTlens = <<2, 3>>
    /\ loc.lam_seq[1].T = 1
    /\ loc.lam_seq[2].T = 2

\* x is constant within every unit, in a panel whose units all outlast the
\* lag, at a rhoz whose powers are not zero
Degenerate ==
    /\ ArgTlens # <<>>
    /\ AllAbove(ArgTlens, 1)
    /\ ConstantWithinUnits
    /\ rhoz # Zero

\* C5 (as claimed): when x is constant within every unit, ZX is zero and
\* raw_ivxj raises NumericalDegeneracy; it returns no tuple.
C5_DegeneracyRaises ==
    (pc = "done" /\ Degenerate) => (loc.ZX = Zero /\ res.st = "NumericalDegeneracy")

\* the part of C5 the code does satisfy: ZX is zero for such an x
ZXIsZero ==
    (pc \in {"residuals", "nickell", "return", "done"} /\ Degenerate) => loc.ZX = Zero

\* C7: raw_ivxj leaves the caller's y, x and Tlens as they were; the
\* decrement of the length vector is made on an array of its own.
C7_InputsNotMutated ==
    [][/\ heap'["arg_y"] = heap["arg_y"]
       /\ heap'["arg_x"] = heap["arg_x"]
       /\ heap'["arg_Tlens"] = heap["arg_Tlens"]]_vars

C7_Witness ==
    /\ pc = "done"
    /\ res.st = "ok"
    /\ loc.Tlens # "arg_Tlens"
    /\ ArgTlens = <<3, 2>>
    /\ heap[loc.Tlens] = <<2, 1>>

-----------------------------------------------------------------------------
(* Properties of ivxj                                                      *)

\* C6 (as claimed): each of the four column identifiers is defaulted on its
\* own, so once the defaulting step is passed no identifier is None,
\* whichever of them the caller supplied.  Stated for frames of at least
\* four columns.
C6_IndependentDefaults ==
    (pc = "sort" /\ Len(cols) >= 4) =>
        /\ loc.identity # None
        /\ loc.time # None
        /\ loc.y_name # None
        /\ loc.x_name # None

=============================================================================
